---- MODULE Spec2Model ----
(***************************************************************************)
(* Points-transaction core of the loyalty backend                          *)
(* (src/src/services/transaction.service.js) run against a document store  *)
(* with multi-document transactions: every call opens a session, reads the *)
(* client, the item and the business inside the transaction, writes the    *)
(* new balance, appends a ledger entry and commits; any throw aborts.      *)
(*                                                                         *)
(* Store semantics (MongoDB transactions, as used through `{ session }`):  *)
(*   - the first read of a transaction fixes its snapshot; later reads of  *)
(*     the transaction see that snapshot;                                  *)
(*   - writes of a transaction are invisible to others until commit;       *)
(*   - a transactional write to a document that another transaction has    *)
(*     written (uncommitted) or that was committed after the snapshot      *)
(*     throws a write conflict; nothing retries it;                        *)
(*   - commit applies all writes of the transaction at once, abort drops   *)
(*     them.                                                               *)
(* Calls interleave at the awaits that reach the store. The reads of one   *)
(* call are served from its snapshot, so nothing another call does between *)
(* them changes what they return: the reads and the checks on what was     *)
(* read are one step, taken at the first read.                             *)
(***************************************************************************)
EXTENDS Integers, Sequences, FiniteSets, TLC

\* ------------------------------------------------------------------ bounds
NumProcs == 2      \* calls that can be in flight at the same time
MaxCalls == 2      \* calls started in one behaviour
MaxAdminOps == 1   \* policy updates and item or business deletions in one behaviour
MaxCreates == 3    \* client documents asked for in one behaviour
MaxTokens == 2     \* refresh tokens issued in one behaviour
MaxClock == 2      \* weeks that pass in one behaviour

\* JWT_REFRESH_EXPIRES_IN || '7d', in weeks
RefreshLifetime == 1

\* generateClientId(businessId, maxRetries = 5)
MaxRetries == 5

Procs == 1..NumProcs

\* --------------------------------------------------------------- identities
Businesses == {"b1", "b2"}
\* object ids given, in this order, to the client documents created later
NewClientIds == SubSeq(<<"n1", "n2", "n3", "n4", "n5", "n6">>, 1, MaxCreates)
\* "c0" and "i0" are well-formed ids with no document behind them
ClientIds == {"c1", "c2", "c0"} \cup {NewClientIds[k] : k \in DOMAIN NewClientIds}
UserIds == {"admin", "u1", "u2"}
ItemIds == {"earn1", "redeem2", "other1", "i0"}
ManualDeltas == {-2, 1}
\* the business whose policy the admin changes while points calls run
UpdatedBusinesses == {"b1"}
\* the items the business deletes while points calls run
DeletedItems == {"earn1"}
\* the calls made: <<client, item>> for an item operation, <<client, delta>>
\* for a manual adjustment. They cover an earn and a redeem on an own item,
\* an item of the other business in both directions, a missing item and a
\* missing client.
ItemRequests ==
  {<<"c1", "earn1">>, <<"c1", "redeem2">>, <<"c1", "other1">>, <<"c1", "i0">>,
   <<"c2", "earn1">>, <<"c2", "other1">>, <<"c0", "earn1">>}
ManualRequests == {<<"c1", d>> : d \in ManualDeltas} \cup {<<"c0", 1>>}

\* ------------------------------------------------------------------ strings
\* a string is the sequence of its characters

LowerCase == <<"a", "b", "c", "d", "e", "f", "g", "h", "i", "j", "k", "l", "m",
               "n", "o", "p", "q", "r", "s", "t", "u", "v", "w", "x", "y", "z">>
UpperCase == <<"A", "B", "C", "D", "E", "F", "G", "H", "I", "J", "K", "L", "M",
               "N", "O", "P", "Q", "R", "S", "T", "U", "V", "W", "X", "Y", "Z">>
Digits == <<"0", "1", "2", "3", "4", "5", "6", "7", "8", "9">>

Range(f) == {f[x] : x \in DOMAIN f}

LowerChars == Range(LowerCase)
UpperAlnumChars == Range(UpperCase) \cup Range(Digits)
AlnumChars == UpperAlnumChars \cup LowerChars
DigitChars == Range(Digits)

\* String.prototype.toUpperCase, character by character
UpperOf(ch) ==
  IF ch \in LowerChars
    THEN UpperCase[CHOOSE k \in DOMAIN LowerCase : LowerCase[k] = ch]
    ELSE ch

ToUpperCase(str) == [k \in DOMAIN str |-> UpperOf(str[k])]

\* the character class [A-Z0-9]
IsUpperAlnum(ch) == ch \in UpperAlnumChars

\* the character class [A-Z0-9] under the i flag
IsAlnum(ch) == ch \in AlnumChars

\* str.replace(/[^A-Z0-9]/g, '')
StripNonUpperAlnum(str) == SelectSeq(str, IsUpperAlnum)

\* str.replace(/[^A-Z0-9]/gi, '')
StripNonAlnum(str) == SelectSeq(str, IsAlnum)

\* str.slice(0, n)
Slice(str, n) == SubSeq(str, 1, IF Len(str) < n THEN Len(str) ELSE n)

\* str.padEnd(n, ch)
PadEnd(str, n, ch) ==
  [k \in 1..(IF Len(str) < n THEN n ELSE Len(str)) |-> IF k <= Len(str) THEN str[k] ELSE ch]

\* the decimal digits of a natural number, as template literals print it
RECURSIVE DecimalOf(_)
DecimalOf(n) ==
  IF n < 10 THEN <<Digits[n + 1]>> ELSE Append(DecimalOf(n \div 10), Digits[(n % 10) + 1])

\* parseInt(str, 10) of a string of decimal digits
RECURSIVE ParseInt(_)
ParseInt(str) ==
  IF str = <<>> THEN 0
  ELSE 10 * ParseInt(SubSeq(str, 1, Len(str) - 1))
       + (CHOOSE d \in 0..9 : Digits[d + 1] = str[Len(str)])

\* ---------------------------------------------------------------- documents
\* clientSchema.isActivated: { type: Boolean, default: true }; no handler
\* passes a value of its own when it creates a client
IsActivatedDefault == TRUE

\* businessSchema.activationCode has no default and no handler sets it
NoActivationCode == ""

NoClient ==
  [exists |-> FALSE, businessId |-> "none", clientId |-> <<>>, points |-> 0,
   isActivated |-> FALSE]
NoItem == [exists |-> FALSE, businessId |-> "none", points |-> 0, type |-> "none"]
NoBusiness ==
  [exists |-> FALSE, name |-> <<>>, allowNegativePoints |-> FALSE,
   activationCode |-> NoActivationCode]
NoSnap == [client |-> NoClient, item |-> NoItem, business |-> NoBusiness]
NoUser == [exists |-> FALSE, role |-> "none", businessId |-> "none"]

\* balance the client was created with (Client.create, points: initialPoints || 0)
InitialPoints(c) == IF c = "c1" THEN 1 ELSE 0

\* names the businesses were created with
BusinessName(b) ==
  IF b = "b1" THEN <<"M", "y", " ", "C", "o", "f", "f", "e", "e">> ELSE <<"T", "e", "a">>

\* identifiers the first clients were given by generateClientId
InitialClientId(c) ==
  IF c = "c1" THEN <<"M", "Y", "C", "O", "-", "A", "B", "3", "D", "E", "G">>
  ELSE <<"T", "E", "A", "X", "-", "A", "B", "3", "D", "E", "G">>

VARIABLES
  businesses,   \* businesses collection: id -> document
  clients,      \* clients collection: id -> document
  items,        \* items collection: id -> document
  ledger,       \* transactions collection, in creation order
  pc,           \* position of each call
  kind,         \* "item" (processPointsOperation) or "manual" (processManualAdjustment)
  args,         \* parameters of the call
  snap,         \* documents as seen by the call's transaction
  loc,          \* beforePoints, pointsChange, afterPoints of the call
  err,          \* error thrown by the call, "none" if none
  wlock,        \* client id -> transaction holding an uncommitted write to it (0: none)
  stale,        \* per call: its client was committed by another transaction since its snapshot
  pending,      \* per call: ledger entries created in its transaction, not yet committed
  calls,        \* number of calls started, and of requests the middleware refused
  adminOps,     \* number of policy updates and item deletions made
  requested,    \* history: per client, sum of the deltas and number of the calls that
                \* passed every check and met no store failure
  refused,      \* history: per client, the same for the calls thrown out by a write conflict
  users,        \* users collection: id -> document
  deletion,     \* the deleteBusiness request: position, target, snapshot, error
  creation,     \* per client-creation request: position, target, identifier, error
  nextClient,   \* number of client object ids handed out so far
  req,          \* per call: the HTTP request in front of it (user, :clientId
                \* parameter, body, req.client, response of the middleware)
  activation,   \* the last activateClient request and its response
  tokens,       \* refreshtokens collection: token -> the document of its hash
  nextToken,    \* number of refresh tokens issued so far
  clock,        \* the date, in weeks
  auth,         \* the last call of the auth service or controller and its result
  authLog,      \* history: the tokens revokeRefreshToken was applied to
  session       \* history: how the last finished points call of each place
                \* ended its transaction and its session

\* what the points calls never touch
\* what only the public and the auth handlers touch
authVars == <<tokens, nextToken, clock, auth, authLog>>
sideVars == <<activation, authVars, session>>
adminVars == <<users, deletion, creation, nextClient, sideVars>>
extVars == <<adminVars, req>>

vars == <<businesses, clients, items, ledger, pc, kind, args, snap, loc, err,
          wlock, stale, pending, calls, adminOps, requested, refused,
          users, deletion, creation, nextClient, req, activation,
          tokens, nextToken, clock, auth, authLog, session>>

\* no client on the request (req.client undefined)
NoAttached == [id |-> "none", businessId |-> "none"]
\* no :clientId parameter
NoParam == [oid |-> "none", text |-> <<>>]
NoRequest ==
  [pc |-> "idle", user |-> "none", param |-> NoParam, itemId |-> "i0",
   client |-> NoAttached, outcome |-> "none"]

\* the refresh tokens generateRefreshToken returns, in this order: 64 random
\* bytes, taken as never repeating
IssuedTokens == SubSeq(<<"t1", "t2", "t3", "t4">>, 1, MaxTokens)
\* the tokens presented: the issued ones and one that never is
TokenStrings == {IssuedTokens[k] : k \in DOMAIN IssuedTokens} \cup {"invalid-token"}

\* crypto.createHash('sha256').update(token).digest('hex'), taken as injective
Sha256(token) == <<"sha256", token>>

NoToken == [exists |-> FALSE, token |-> <<>>, userId |-> "none", expiresAt |-> 0,
            isRevoked |-> FALSE]
NoAuth == [op |-> "none", token |-> "none", result |-> "none", status |-> 0]
\* commits, aborts, ends: calls of commitTransaction, abortTransaction and
\* endSession; error: what the call threw; cause: what made it fail
NoSession == [result |-> "none", commits |-> 0, aborts |-> 0, ends |-> 0,
              error |-> "none", cause |-> "none"]

NoActivation ==
  [businessId |-> "none", clientId |-> <<>>, activationCode |-> "", status |-> 0]

NoArgs == [clientObjectId |-> "c0", itemId |-> "i0", pointsChange |-> 0]
NoLoc == [beforePoints |-> 0, pointsChange |-> 0, afterPoints |-> 0]

\* the requests that create clients (createClient, generateClients) in flight
Creators == {"k1", "k2"}

\* the transaction of deleteBusiness, as a lock holder next to the points calls
Deleter == NumProcs + 1

NoDeletion ==
  [pc |-> "idle", businessId |-> "none", err |-> "none",
   snap |-> [clients |-> <<>>, ledger |-> <<>>, users |-> <<>>]]

NoCreation ==
  [pc |-> "idle", op |-> "none", businessId |-> "none", prefix |-> <<>>, attempt |-> 0,
   clientId |-> <<>>, path |-> "none", count |-> 0, maxNum |-> 0, seen |-> {}]

Init ==
  /\ \E allow \in BOOLEAN :
       businesses = [b \in Businesses |->
                       [exists |-> TRUE, name |-> BusinessName(b),
                        allowNegativePoints |-> (b = "b1" /\ allow),
                        activationCode |-> NoActivationCode]]
  /\ clients = [c \in ClientIds |->
                  IF c = "c1" THEN [exists |-> TRUE, businessId |-> "b1",
                                    clientId |-> InitialClientId(c), points |-> InitialPoints(c),
                                    isActivated |-> IsActivatedDefault]
                  ELSE IF c = "c2" THEN [exists |-> TRUE, businessId |-> "b2",
                                         clientId |-> InitialClientId(c), points |-> InitialPoints(c),
                                    isActivated |-> IsActivatedDefault]
                  ELSE NoClient]
  /\ items = [i \in ItemIds |->
                  IF i = "earn1" THEN [exists |-> TRUE, businessId |-> "b1", points |-> 1, type |-> "earn"]
                  ELSE IF i = "redeem2" THEN [exists |-> TRUE, businessId |-> "b1", points |-> 2, type |-> "redeem"]
                  ELSE IF i = "other1" THEN [exists |-> TRUE, businessId |-> "b2", points |-> 1, type |-> "redeem"]
                  ELSE NoItem]
  /\ ledger = <<>>
  /\ pc = [p \in Procs |-> "idle"]
  /\ kind = [p \in Procs |-> "item"]
  /\ args = [p \in Procs |-> NoArgs]
  /\ snap = [p \in Procs |-> NoSnap]
  /\ loc = [p \in Procs |-> NoLoc]
  /\ err = [p \in Procs |-> "none"]
  /\ wlock = [c \in ClientIds |-> 0]
  /\ req = [p \in Procs |-> NoRequest]
  /\ activation = NoActivation
  /\ tokens = [t \in TokenStrings |-> NoToken]
  /\ nextToken = 0
  /\ clock = 0
  /\ auth = NoAuth
  /\ authLog = [revoked |-> {}]
  /\ session = [p \in Procs |-> NoSession]
  /\ stale = [p \in Procs |-> FALSE]
  /\ pending = [p \in Procs |-> <<>>]
  /\ calls = 0
  /\ adminOps = 0
  /\ requested = [c \in ClientIds |-> [sum |-> 0, n |-> 0]]
  /\ refused = [c \in ClientIds |-> [sum |-> 0, n |-> 0]]
  /\ users = [u \in UserIds |->
                IF u = "admin" THEN [exists |-> TRUE, role |-> "admin", businessId |-> "none"]
                ELSE [exists |-> TRUE, role |-> "business_user",
                      businessId |-> IF u = "u1" THEN "b1" ELSE "b2"]]
  /\ deletion = NoDeletion
  /\ creation = [q \in Creators |-> NoCreation]
  /\ nextClient = 0

\* ------------------------------------------------------- the code's decisions

\* if (!client) throw new ApiError(404, 'Client not found')
ClientMissing(doc) == ~doc.exists

ItemMissing_unchecked(doc) == FALSE

\* if (!item) throw new ApiError(404, 'Item not found')
ItemMissing(doc) == ~doc.exists

BusinessMissing_unchecked(doc) == FALSE

\* if (!business) throw new ApiError(404, 'Business not found')
BusinessMissing(doc) == ~doc.exists

SameBusiness_unchecked(item, client) == TRUE

\* item.businessId.toString() !== client.businessId.toString() is the failure
SameBusiness(item, client) == item.businessId = client.businessId

ValidItemType(item) == item.type \in {"earn", "redeem"}

PointsChangeOf_unsigned(item) == item.points

\* earn adds item.points, redeem subtracts it
PointsChangeOf(item) == IF item.type = "earn" THEN item.points ELSE 0 - item.points

AfterPointsOf_subtracts(beforePoints, pointsChange) == beforePoints - pointsChange

\* const afterPoints = beforePoints + pointsChange
AfterPointsOf(beforePoints, pointsChange) == beforePoints + pointsChange

RejectsNegative_inverted(afterPoints, business) ==
  afterPoints < 0 /\ business.allowNegativePoints

RejectsNegative_always(afterPoints, business) == afterPoints < 0

RejectsNegative_never(afterPoints, business) == FALSE

\* if (afterPoints < 0 && !business.allowNegativePoints) throw
RejectsNegative(afterPoints, business) == afterPoints < 0 /\ ~business.allowNegativePoints

\* HTTP status carried by each error the two functions can throw
StatusOf(e) ==
  CASE e = "ClientNotFound" -> 404
    [] e = "ItemNotFound" -> 404
    [] e = "BusinessNotFound" -> 404
    [] e = "CrossTenant" -> 400
    [] e = "InvalidItemType" -> 400
    [] e = "InsufficientPoints" -> 400
    [] OTHER -> 500

\* ------------------------------------------------------------ the store

WriteConflict_never(p, c) == FALSE

\* a transactional write conflicts with an uncommitted write of another
\* transaction and with a commit made after the writer's snapshot
WriteConflict(p, c) == wlock[c] \notin {0, p} \/ stale[p]

ClientsAfterUpdate_nosession(cl, c, afterPoints) == [cl EXCEPT ![c].points = afterPoints]

\* Client.findByIdAndUpdate(id, { points }, { session }): bound to the session,
\* the write leaves the committed collection as it is until commit
ClientsAfterUpdate(cl, c, afterPoints) == cl

ClientsAfterCommit_all(cl, c, afterPoints) ==
  [x \in DOMAIN cl |-> [cl[x] EXCEPT !.points = afterPoints]]

\* commitTransaction makes the balance write of the transaction visible
ClientsAfterCommit(cl, c, afterPoints) == [cl EXCEPT ![c].points = afterPoints]

LedgerAfterCreate_nosession(lg, entry) == Append(lg, entry)

\* Transaction.create([...], { session }): bound to the session, the insert
\* leaves the committed collection as it is until commit
LedgerAfterCreate(lg, entry) == lg

LedgerAfterCommit_replaces(lg, created) == created

LedgerAfterCommit_twice(lg, created) == lg \o created \o created

\* commitTransaction makes the created ledger entries visible, in creation order
LedgerAfterCommit(lg, created) == lg \o created

\* the document handed to Transaction.create
LedgerEntryOf(p) ==
  [clientId |-> args[p].clientObjectId,
   businessId |-> snap[p].client.businessId,
   itemId |-> IF kind[p] = "item" THEN args[p].itemId ELSE "null",
   points |-> loc[p].pointsChange,
   beforePoints |-> loc[p].beforePoints,
   afterPoints |-> loc[p].afterPoints]

ErrorAmountOf_shortfall(k, l, s) == 0 - l.afterPoints

\* the number the overdraft error carries next to the current balance:
\* `required: ${item.points}` for an item operation, `negative balance:
\* ${afterPoints}` for a manual adjustment
ErrorAmountOf(k, l, s) == IF k = "item" THEN s.item.points ELSE l.afterPoints

\* `Current balance: ${beforePoints}` of the overdraft error
ErrorBalanceOf(l) == l.beforePoints

\* the ApiError(400, ...) thrown by the overdraft check of the call p
OverdraftError(p) ==
  [statusCode |-> 400,
   balance |-> ErrorBalanceOf(loc[p]),
   amount |-> ErrorAmountOf(kind[p], loc[p], snap[p])]

\* ------------------------------------------------------------- the calls

InFlight(p) == pc[p] # "idle"

\* the call returns or throws (finally: session.endSession()); its frame is gone
Finish(p) ==
  /\ pc' = [pc EXCEPT ![p] = "idle"]
  /\ kind' = [kind EXCEPT ![p] = "item"]
  /\ args' = [args EXCEPT ![p] = NoArgs]
  /\ snap' = [snap EXCEPT ![p] = NoSnap]
  /\ loc' = [loc EXCEPT ![p] = NoLoc]
  /\ err' = [err EXCEPT ![p] = "none"]
  /\ pending' = [pending EXCEPT ![p] = <<>>]

SnapshotOutdated_never(q, c) == FALSE

\* call q read client c in its snapshot and has not written it yet
SnapshotOutdated(q, c) == pc[q] = "update" /\ args[q].clientObjectId = c

\* what the transaction of a call with arguments a sees: the committed
\* documents at its first read
SnapshotOf(k, a) ==
  LET c == clients[a.clientObjectId] IN
  [client |-> c,
   item |-> IF k = "item" THEN items[a.itemId] ELSE NoItem,
   business |-> IF c.exists THEN businesses[c.businessId] ELSE NoBusiness]

\* the signed delta of a call: from the item's type and points for an item
\* operation, the pointsChange parameter for a manual adjustment
PointsChangeFor(k, a, s) ==
  IF k = "item" THEN PointsChangeOf(s.item) ELSE a.pointsChange

\* beforePoints, pointsChange and afterPoints as the call computes them
LocOf(k, a, s) ==
  [beforePoints |-> s.client.points,
   pointsChange |-> PointsChangeFor(k, a, s),
   afterPoints |-> AfterPointsOf(s.client.points, PointsChangeFor(k, a, s))]

\* the first throw the call meets on the documents s it read, in the order
\* of the code: client, item, same business, business, item type, overdraft
ErrorOf(k, a, s) ==
  IF ClientMissing(s.client) THEN "ClientNotFound"
  ELSE IF k = "item" /\ ItemMissing(s.item) THEN "ItemNotFound"
  ELSE IF k = "item" /\ ~SameBusiness(s.item, s.client) THEN "CrossTenant"
  ELSE IF BusinessMissing(s.business) THEN "BusinessNotFound"
  ELSE IF k = "item" /\ ~ValidItemType(s.item) THEN "InvalidItemType"
  ELSE IF RejectsNegative(LocOf(k, a, s).afterPoints, s.business) THEN "InsufficientPoints"
  ELSE "none"

\* a call enters processPointsOperation / processManualAdjustment:
\* startSession, startTransaction, Client.findById, Item.findById,
\* Business.findById (all .session(session)), the checks on each document,
\* the balance computation and the overdraft check. The calls in flight are
\* interchangeable, so a new call takes the first free place.
StartTransactionWith(p, k, a) ==
  /\ ~InFlight(p)
  /\ \A o \in Procs : o < p => InFlight(o)
  /\ calls < MaxCalls
  /\ calls' = calls + 1
  /\ LET s == SnapshotOf(k, a)
         e == ErrorOf(k, a, s)
     IN /\ kind' = [kind EXCEPT ![p] = k]
        /\ args' = [args EXCEPT ![p] = a]
        /\ snap' = [snap EXCEPT ![p] = s]
        /\ err' = [err EXCEPT ![p] = e]
        /\ loc' = [loc EXCEPT ![p] = IF e \in {"none", "InsufficientPoints"}
                                       THEN LocOf(k, a, s) ELSE NoLoc]
        /\ pc' = [pc EXCEPT ![p] = IF e = "none" THEN "update" ELSE "abort"]
        /\ requested' = IF e = "none"
                          THEN [requested EXCEPT ![a.clientObjectId] =
                                  [sum |-> @.sum + LocOf(k, a, s).pointsChange,
                                   n |-> @.n + 1]]
                          ELSE requested
  /\ stale' = [stale EXCEPT ![p] = FALSE]
  /\ UNCHANGED <<businesses, clients, items, ledger, wlock, pending, adminOps, refused>>
  /\ UNCHANGED adminVars

\* the parameters of a call made with request r
ArgsOf(k, r) ==
  IF k = "item" THEN [clientObjectId |-> r[1], itemId |-> r[2], pointsChange |-> 0]
  ELSE [clientObjectId |-> r[1], itemId |-> "i0", pointsChange |-> r[2]]

\* a points call made with one of the requests
StartTransaction(p) ==
  /\ \E k \in {"item", "manual"} :
       \E r \in IF k = "item" THEN ItemRequests ELSE ManualRequests :
         StartTransactionWith(p, k, ArgsOf(k, r))
  /\ UNCHANGED req

\* Client.findByIdAndUpdate(clientObjectId, { points: afterPoints }, { session })
UpdateClient(p) ==
  /\ pc[p] = "update"
  /\ LET c == args[p].clientObjectId IN
       IF WriteConflict(p, c)
         THEN /\ err' = [err EXCEPT ![p] = "WriteConflict"]
              /\ pc' = [pc EXCEPT ![p] = "abort"]
              /\ refused' = [refused EXCEPT ![c] =
                               [sum |-> @.sum + loc[p].pointsChange, n |-> @.n + 1]]
              /\ UNCHANGED <<clients, wlock>>
         ELSE /\ wlock' = [wlock EXCEPT ![c] = p]
              /\ refused' = refused
              /\ clients' = ClientsAfterUpdate(clients, c, loc[p].afterPoints)
              /\ pc' = [pc EXCEPT ![p] = "create"]
              /\ err' = err
  /\ UNCHANGED <<businesses, items, ledger, kind, args, snap, loc, stale, pending,
                 calls, adminOps, requested>>
  /\ UNCHANGED extVars

\* Transaction.create([{...}], { session }): the insert is kept by the
\* transaction, or the store refuses it and create throws
CreateTransaction(p) ==
  /\ pc[p] = "create"
  /\ \E stored \in BOOLEAN :
       IF stored
         THEN /\ pending' = [pending EXCEPT ![p] = Append(@, LedgerEntryOf(p))]
              /\ ledger' = LedgerAfterCreate(ledger, LedgerEntryOf(p))
              /\ pc' = [pc EXCEPT ![p] = "commit"]
              /\ UNCHANGED <<err, requested>>
         ELSE /\ err' = [err EXCEPT ![p] = "StoreError"]
              /\ pc' = [pc EXCEPT ![p] = "abort"]
              /\ requested' = [requested EXCEPT ![args[p].clientObjectId] =
                                 [sum |-> @.sum - loc[p].pointsChange, n |-> @.n - 1]]
              /\ UNCHANGED <<pending, ledger>>
  /\ UNCHANGED <<businesses, clients, items, kind, args, snap, loc, wlock,
                 stale, calls, adminOps, refused>>
  /\ UNCHANGED extVars

\* what a commit that succeeds does to the store and to the call
CommitTransaction(p) ==
  /\ pc[p] = "commit"
  /\ LET c == args[p].clientObjectId IN
       /\ clients' = ClientsAfterCommit(clients, c, loc[p].afterPoints)
       /\ ledger' = LedgerAfterCommit(ledger, pending[p])
       /\ wlock' = [wlock EXCEPT ![c] = 0]
       /\ stale' = [q \in Procs |-> q # p /\ (stale[q] \/ SnapshotOutdated(q, c))]
  /\ Finish(p)
  /\ UNCHANGED <<businesses, items, calls, adminOps, requested, refused>>

\* session.commitTransaction(), return { success: true, ... }, endSession
Commit(p) ==
  /\ CommitTransaction(p)
  /\ UNCHANGED extVars

\* what the end of a transaction that did not commit does to the store and
\* to the call
AbortTransaction(p) ==
  /\ pc[p] = "abort"
  /\ wlock' = [c \in ClientIds |-> IF wlock[c] = p THEN 0 ELSE wlock[c]]
  /\ stale' = [stale EXCEPT ![p] = FALSE]
  /\ Finish(p)
  /\ UNCHANGED <<businesses, clients, items, ledger, calls, adminOps, requested, refused>>

\* catch: session.abortTransaction(), throw error, endSession
Abort(p) ==
  /\ AbortTransaction(p)
  /\ UNCHANGED extVars

\* ------------------------------------------------- the other writers

\* admin updateBusiness: Business.findByIdAndUpdate(id, { $set: { allowNegativePoints } })
UpdateBusiness(b, v) ==
  /\ adminOps < MaxAdminOps
  /\ businesses[b].exists
  /\ businesses[b].allowNegativePoints # v
  /\ businesses' = [businesses EXCEPT ![b].allowNegativePoints = v]
  /\ adminOps' = adminOps + 1
  /\ UNCHANGED <<clients, items, ledger, pc, kind, args, snap, loc, err, wlock,
                 stale, pending, calls, requested, refused>>
  /\ UNCHANGED extVars

\* business deleteItem: Item.findOneAndDelete({ _id: itemId, businessId })
DeleteItem(i) ==
  /\ adminOps < MaxAdminOps
  /\ adminOps' = adminOps + 1
  /\ items[i].exists
  /\ items' = [items EXCEPT ![i] = NoItem]
  /\ UNCHANGED <<businesses, clients, ledger, pc, kind, args, snap, loc, err, wlock,
                 stale, pending, calls, requested, refused>>
  /\ UNCHANGED extVars

\* ------------------------------------------------- client identifiers

\* business.name.toUpperCase().replace(/[^A-Z0-9]/g, '').slice(0, 4).padEnd(4, 'X')
Prefix(name) == PadEnd(Slice(StripNonUpperAlnum(ToUpperCase(name)), 4), 4, "X")

\* base64.replace(/[^A-Z0-9]/gi, '').toUpperCase().slice(0, 6)
RandomPart(base64) == Slice(ToUpperCase(StripNonAlnum(base64)), 6)

\* `${prefix}-${randomPart}`
CandidateId(prefix, base64) == prefix \o <<"-">> \o RandomPart(base64)

\* `${prefix}-${timestamp}${random}`.slice(0, 15), both parts upper-cased
FallbackId(prefix, timestamp, hex) ==
  Slice(prefix \o <<"-">> \o ToUpperCase(timestamp) \o ToUpperCase(hex), 15)

\* /^[A-Z0-9]{4}-[A-Z0-9]{6,}$/.test(clientId)
IsValidClientIdFormat(str) ==
  /\ Len(str) >= 11
  /\ \A k \in 1..4 : IsUpperAlnum(str[k])
  /\ str[5] = "-"
  /\ \A k \in 6..Len(str) : IsUpperAlnum(str[k])

\* `client${nextNum}`
GeneratedId(n) == <<"c", "l", "i", "e", "n", "t">> \o DecimalOf(n)

\* /^client\d+$/
IsGeneratedId(str) ==
  /\ Len(str) >= 7
  /\ SubSeq(str, 1, 6) = <<"c", "l", "i", "e", "n", "t">>
  /\ \A k \in 7..Len(str) : str[k] \in DigitChars

\* parseInt(c.clientId.replace('client', ''), 10)
NumberOfGeneratedId(str) == ParseInt(SubSeq(str, 7, Len(str)))

\* outputs of crypto.randomBytes(4).toString('base64'): six characters of the
\* base64 alphabet and the padding
RandomBase64 ==
  {<<"a", "B", "3", "d", "E", "g", "=", "=">>,
   <<"x", "+", "7", "/", "K", "w", "=", "=">>}

\* outputs of Date.now().toString(36); calls in the same millisecond get the same one
Timestamps == {<<"m", "h", "3", "k", "9", "z", "2", "q">>}

\* outputs of crypto.randomBytes(2).toString('hex')
RandomHex == {<<"a", "1", "f", "0">>, <<"a", "1", "0", "c">>, <<"0", "7", "c", "e">>}

\* the clients of business b among the documents cl
ClientsOfBusinessIn(cl, b) == {c \in ClientIds : cl[c].exists /\ cl[c].businessId = b}

ClientIdTaken_never(cl, b, id) == FALSE

\* Client.findOne({ clientId, businessId }) finds a document among cl
ClientIdTaken(cl, b, id) ==
  \E c \in ClientIds : cl[c].exists /\ cl[c].businessId = b /\ cl[c].clientId = id

DuplicateKey_noindex(cl, b, id) == FALSE

\* the unique index { businessId: 1, clientId: 1 } refuses the insert
DuplicateKey(cl, b, id) == ClientIdTaken(cl, b, id)

\* the document Client.create / insertMany stores
NewClient(b, id) ==
  [exists |-> TRUE, businessId |-> b, clientId |-> id, points |-> 0,
   isActivated |-> IsActivatedDefault]

\* Client.insertMany(docs), ordered: the documents go in one after the other
\* and the first duplicate key stops the rest; n is the number of object ids used
RECURSIVE InsertMany(_, _, _, _)
InsertMany(cl, n, b, ids) ==
  IF ids = <<>> \/ DuplicateKey(cl, b, Head(ids))
    THEN [clients |-> cl, next |-> n]
    ELSE InsertMany([cl EXCEPT ![NewClientIds[n + 1]] = NewClient(b, Head(ids))],
                    n + 1, b, Tail(ids))

\* client documents the creation requests in flight may still insert
Reserved(cr) ==
  LET Need(q) == IF cr[q].op = "createClient" THEN 1
                 ELSE IF cr[q].op = "generateClients" THEN cr[q].count ELSE 0
      RECURSIVE Sum(_)
      Sum(S) == IF S = {} THEN 0
                ELSE LET q == CHOOSE x \in S : TRUE IN Need(q) + Sum(S \ {q})
  IN Sum(Creators)

\* ------------------------------------------------- createClient (admin)

\* the requests in flight are interchangeable: a new one takes the first
\* free place
FirstFree(q) == q = "k1" \/ creation["k1"].pc # "idle"

\* createClient: Business.findById(businessId), 404 when there is none
CreateClientStart(q, b) ==
  /\ creation[q].pc = "idle"
  /\ FirstFree(q)
  /\ nextClient + Reserved(creation) < MaxCreates
  /\ creation' = [creation EXCEPT ![q] =
                    IF businesses[b].exists
                      THEN [NoCreation EXCEPT !.pc = "generate", !.op = "createClient",
                                              !.businessId = b]
                      ELSE NoCreation]
  /\ UNCHANGED <<req, sideVars>>
  /\ UNCHANGED <<businesses, clients, items, ledger, pc, kind, args, snap, loc, err,
                 wlock, stale, pending, calls, adminOps, requested, refused,
                 users, deletion, nextClient>>

\* identifiers generateClientId has returned for business b to requests that
\* have not inserted their client yet
ReturnedNotInserted(b) ==
  {creation[o].clientId : o \in {x \in Creators : creation[x].pc = "insert"
                                                   /\ creation[x].businessId = b}}

\* generateClientId: Business.findById(businessId), throws when there is
\* none, then the prefix from the business name; `seen` keeps what earlier
\* calls had returned when this one began
GenerateClientId(q) ==
  /\ creation[q].pc = "generate"
  /\ LET business == businesses[creation[q].businessId] IN
       creation' = [creation EXCEPT ![q] =
                      IF BusinessMissing(business) THEN NoCreation
                      ELSE [@ EXCEPT !.pc = "attempt", !.prefix = Prefix(business.name),
                                     !.seen = ReturnedNotInserted(creation[q].businessId)]]
  /\ UNCHANGED <<req, sideVars>>
  /\ UNCHANGED <<businesses, clients, items, ledger, pc, kind, args, snap, loc, err,
                 wlock, stale, pending, calls, adminOps, requested, refused,
                 users, deletion, nextClient>>

\* one turn of the loop of generateClientId: a random candidate and
\* Client.findOne({ clientId, businessId }); the candidate is returned when no
\* client has it, and after maxRetries candidates the fallback is returned
\* without a lookup
Attempt(q) ==
  /\ creation[q].pc = "attempt"
  /\ \E base64 \in RandomBase64 :
       LET cr == creation[q]
           candidate == CandidateId(cr.prefix, base64)
       IN IF ~ClientIdTaken(clients, cr.businessId, candidate)
            THEN creation' = [creation EXCEPT ![q] =
                   [cr EXCEPT !.pc = "insert", !.clientId = candidate, !.path = "random"]]
          ELSE IF cr.attempt + 1 < MaxRetries
            THEN creation' = [creation EXCEPT ![q] = [cr EXCEPT !.attempt = @ + 1]]
          ELSE \E timestamp \in Timestamps, hex \in RandomHex :
                 creation' = [creation EXCEPT ![q] =
                   [cr EXCEPT !.pc = "insert", !.attempt = @ + 1, !.path = "fallback",
                              !.clientId = FallbackId(cr.prefix, timestamp, hex)]]
  /\ UNCHANGED <<req, sideVars>>
  /\ UNCHANGED <<businesses, clients, items, ledger, pc, kind, args, snap, loc, err,
                 wlock, stale, pending, calls, adminOps, requested, refused,
                 users, deletion, nextClient>>

\* Client.create({ businessId, clientId, ..., points: initialPoints || 0 }):
\* the unique index refuses a duplicate, nothing else is looked at
InsertClient(q) ==
  /\ creation[q].pc = "insert"
  /\ LET cr == creation[q] IN
       IF DuplicateKey(clients, cr.businessId, cr.clientId)
         THEN UNCHANGED <<clients, nextClient>>
         ELSE /\ clients' = [clients EXCEPT ![NewClientIds[nextClient + 1]] =
                               NewClient(cr.businessId, cr.clientId)]
              /\ nextClient' = nextClient + 1
  /\ creation' = [creation EXCEPT ![q] = NoCreation]
  /\ UNCHANGED <<req, sideVars>>
  /\ UNCHANGED <<businesses, items, ledger, pc, kind, args, snap, loc, err,
                 wlock, stale, pending, calls, adminOps, requested, refused,
                 users, deletion>>

CreateClient(q, b) ==
  \/ CreateClientStart(q, b)
  \/ GenerateClientId(q)
  \/ Attempt(q)
  \/ InsertClient(q)

\* ---------------------------------------------- generateClients (admin)

\* generateClients: count checked, Business.findById(businessId), 404 when
\* there is none
GenerateClientsStart(q, b, count) ==
  /\ creation[q].pc = "idle"
  /\ FirstFree(q)
  /\ count > 0
  /\ nextClient + Reserved(creation) + count <= MaxCreates
  /\ creation' = [creation EXCEPT ![q] =
                    IF businesses[b].exists
                      THEN [NoCreation EXCEPT !.pc = "find", !.op = "generateClients",
                                              !.businessId = b, !.count = count]
                      ELSE NoCreation]
  /\ UNCHANGED <<req, sideVars>>
  /\ UNCHANGED <<businesses, clients, items, ledger, pc, kind, args, snap, loc, err,
                 wlock, stale, pending, calls, adminOps, requested, refused,
                 users, deletion, nextClient>>

\* the largest N among the identifiers client<N> of the business, 0 if none
MaxGeneratedNumber(cl, b) ==
  LET nums == {NumberOfGeneratedId(cl[c].clientId) :
                 c \in {x \in ClientsOfBusinessIn(cl, b) : IsGeneratedId(cl[x].clientId)}}
  IN IF nums = {} THEN 0 ELSE CHOOSE n \in nums : \A o \in nums : o <= n

\* Client.find({ businessId, clientId: /^client\d+$/ }) and the largest number
FindGenerated(q) ==
  /\ creation[q].pc = "find"
  /\ creation' = [creation EXCEPT ![q] =
                    [@ EXCEPT !.pc = "insertMany",
                              !.maxNum = MaxGeneratedNumber(clients, creation[q].businessId)]]
  /\ UNCHANGED <<req, sideVars>>
  /\ UNCHANGED <<businesses, clients, items, ledger, pc, kind, args, snap, loc, err,
                 wlock, stale, pending, calls, adminOps, requested, refused,
                 users, deletion, nextClient>>

\* Client.insertMany of client<maxNum+1> .. client<maxNum+count>
InsertGenerated(q) ==
  /\ creation[q].pc = "insertMany"
  /\ LET cr == creation[q]
         result == InsertMany(clients, nextClient, cr.businessId,
                              [k \in 1..cr.count |-> GeneratedId(cr.maxNum + k)])
     IN /\ clients' = result.clients
        /\ nextClient' = result.next
  /\ creation' = [creation EXCEPT ![q] = NoCreation]
  /\ UNCHANGED <<req, sideVars>>
  /\ UNCHANGED <<businesses, items, ledger, pc, kind, args, snap, loc, err,
                 wlock, stale, pending, calls, adminOps, requested, refused,
                 users, deletion>>

GenerateClients(q, b, count) ==
  \/ GenerateClientsStart(q, b, count)
  \/ FindGenerated(q)
  \/ InsertGenerated(q)

\* --------------------------------------------------------- deleteBusiness

\* the clients Client.deleteMany({ businessId }) matches among the documents cl
ClientsOfBusiness(cl, b) == ClientsOfBusinessIn(cl, b)

\* the ledger entries of client c in ledger lg
EntriesIn(lg, c) == SelectSeq(lg, LAMBDA e : e.clientId = c)

\* client c was written (balance write committed) after snapshot sn was taken
WrittenSince(c, sn) ==
  clients[c] # sn.clients[c] \/ Len(EntriesIn(ledger, c)) # Len(EntriesIn(sn.ledger, c))

\* Transaction.deleteMany({ businessId }) removes the entries of the business
\* that the snapshot (the first n entries) holds; later entries are not seen
LedgerAfterDelete(lg, n, b) ==
  SelectSeq(SubSeq(lg, 1, n), LAMBDA e : e.businessId # b) \o SubSeq(lg, n + 1, Len(lg))

\* admin deleteBusiness: startSession, startTransaction,
\* Business.findByIdAndDelete(businessId).session(session), 404 when there is none
DeleteBusinessStart(b) ==
  /\ deletion.pc = "idle"
  /\ adminOps < MaxAdminOps
  /\ adminOps' = adminOps + 1
  /\ deletion' = [pc |-> IF businesses[b].exists THEN "deleteClients" ELSE "abort",
                  businessId |-> b,
                  err |-> IF businesses[b].exists THEN "none" ELSE "BusinessNotFound",
                  snap |-> [clients |-> clients, ledger |-> ledger, users |-> users]]
  /\ UNCHANGED <<req, sideVars>>
  /\ UNCHANGED <<businesses, clients, items, ledger, pc, kind, args, snap, loc, err,
                 wlock, stale, pending, calls, requested, refused,
                 users, creation, nextClient>>

\* Client.deleteMany({ businessId }).session(session): a write to every client
\* of the business in the snapshot; it conflicts with a points call that holds
\* or has committed a write to one of them, and the store may refuse it
DeleteClients ==
  /\ deletion.pc = "deleteClients"
  /\ LET targets == ClientsOfBusiness(deletion.snap.clients, deletion.businessId) IN
       \E stored \in BOOLEAN :
         IF \E c \in targets : wlock[c] # 0 \/ WrittenSince(c, deletion.snap)
           THEN /\ deletion' = [deletion EXCEPT !.pc = "abort", !.err = "WriteConflict"]
                /\ wlock' = wlock
           ELSE IF ~stored
             THEN /\ deletion' = [deletion EXCEPT !.pc = "abort", !.err = "StoreError"]
                  /\ wlock' = wlock
             ELSE /\ deletion' = [deletion EXCEPT !.pc = "deleteTransactions"]
                  /\ wlock' = [c \in ClientIds |-> IF c \in targets THEN Deleter
                                                   ELSE wlock[c]]
  /\ UNCHANGED <<req, sideVars>>
  /\ UNCHANGED <<businesses, clients, items, ledger, pc, kind, args, snap, loc, err,
                 stale, pending, calls, adminOps, requested, refused,
                 users, creation, nextClient>>

\* Transaction.deleteMany({ businessId }).session(session)
DeleteTransactions ==
  /\ deletion.pc = "deleteTransactions"
  /\ \E stored \in BOOLEAN :
       deletion' = IF stored THEN [deletion EXCEPT !.pc = "deleteUsers"]
                   ELSE [deletion EXCEPT !.pc = "abort", !.err = "StoreError"]
  /\ UNCHANGED <<req, sideVars>>
  /\ UNCHANGED <<businesses, clients, items, ledger, pc, kind, args, snap, loc, err,
                 wlock, stale, pending, calls, adminOps, requested, refused,
                 users, creation, nextClient>>

\* User.deleteMany({ businessId }).session(session)
DeleteUsers ==
  /\ deletion.pc = "deleteUsers"
  /\ \E stored \in BOOLEAN :
       deletion' = IF stored THEN [deletion EXCEPT !.pc = "commit"]
                   ELSE [deletion EXCEPT !.pc = "abort", !.err = "StoreError"]
  /\ UNCHANGED <<req, sideVars>>
  /\ UNCHANGED <<businesses, clients, items, ledger, pc, kind, args, snap, loc, err,
                 wlock, stale, pending, calls, adminOps, requested, refused,
                 users, creation, nextClient>>

\* session.commitTransaction(): the business, its clients, transactions and
\* users of the snapshot go at once; nothing in the handler deletes its items
DeleteBusinessCommit ==
  /\ deletion.pc = "commit"
  /\ LET b == deletion.businessId
         targets == ClientsOfBusiness(deletion.snap.clients, b)
     IN /\ businesses' = [businesses EXCEPT ![b] = NoBusiness]
        /\ clients' = [c \in ClientIds |-> IF c \in targets THEN NoClient ELSE clients[c]]
        /\ ledger' = LedgerAfterDelete(ledger, Len(deletion.snap.ledger), b)
        /\ users' = [u \in UserIds |->
                       IF deletion.snap.users[u].exists /\ deletion.snap.users[u].businessId = b
                         THEN NoUser ELSE users[u]]
        /\ wlock' = [c \in ClientIds |-> IF wlock[c] = Deleter THEN 0 ELSE wlock[c]]
        /\ stale' = [q \in Procs |->
                       stale[q] \/ (pc[q] = "update" /\ args[q].clientObjectId \in targets)]
  /\ deletion' = NoDeletion
  /\ UNCHANGED <<req, sideVars>>
  /\ UNCHANGED <<items, pc, kind, args, snap, loc, err, pending, calls, adminOps,
                 requested, refused, creation, nextClient>>

\* catch: session.abortTransaction(), throw err, endSession
DeleteBusinessAbort ==
  /\ deletion.pc = "abort"
  /\ wlock' = [c \in ClientIds |-> IF wlock[c] = Deleter THEN 0 ELSE wlock[c]]
  /\ deletion' = NoDeletion
  /\ UNCHANGED <<req, sideVars>>
  /\ UNCHANGED <<businesses, clients, items, ledger, pc, kind, args, snap, loc, err,
                 stale, pending, calls, adminOps, requested, refused,
                 users, creation, nextClient>>

DeleteBusiness(b) ==
  \/ DeleteBusinessStart(b)
  \/ DeleteClients
  \/ DeleteTransactions
  \/ DeleteUsers
  \/ DeleteBusinessCommit
  \/ DeleteBusinessAbort

Next ==
  \/ \E p \in Procs : StartTransaction(p)
  \/ \E p \in Procs : UpdateClient(p)
  \/ \E p \in Procs : CreateTransaction(p)
  \/ \E p \in Procs : Commit(p)
  \/ \E p \in Procs : Abort(p)
  \/ \E b \in UpdatedBusinesses, v \in BOOLEAN : UpdateBusiness(b, v)
  \/ \E i \in DeletedItems : DeleteItem(i)

Spec == Init /\ [][Next]_vars

\* ---------------------------------------- a points call next to the admin
\* One points call at a time, made while an admin deletes the business "b1"
\* and creates one client for it: an item of "b1" for the client the admin
\* creates, or a manual delta of zero for the first client of "b1".
LateItemRequests == {<<"n1", "earn1">>}
LateManualRequests == {<<"c1", 0>>}

LateStartTransaction(p) ==
  /\ \E k \in {"item", "manual"} :
       \E r \in IF k = "item" THEN LateItemRequests ELSE LateManualRequests :
         StartTransactionWith(p, k, ArgsOf(k, r))
  /\ UNCHANGED req

\* the admin's createClient for "b1", made once
CreateFirstClient == nextClient = 0 /\ CreateClient("k1", "b1")

NextAdmin ==
  \/ LateStartTransaction(1)
  \/ UpdateClient(1)
  \/ CreateTransaction(1)
  \/ Commit(1)
  \/ Abort(1)
  \/ CreateFirstClient
  \/ DeleteBusiness("b1")

SpecAdmin == Init /\ [][NextAdmin]_vars

\* ------------------------------------------------ the creation of clients
\* Two requests at a time that create clients, one by one with an allocated
\* identifier for "b1" or in bulk with numbered identifiers for any business.
BulkCounts == {1, 2}

NextIds ==
  \/ \E q \in Creators : CreateClient(q, "b1")
  \/ \E q \in Creators, b \in Businesses, count \in BulkCounts : GenerateClients(q, b, count)

SpecIds == Init /\ [][NextIds]_vars

\* createClient requests alone; every await of generateClientId resolves, so
\* a call that can take its next step takes it
NextGenerate == \E q \in Creators : CreateClient(q, "b1")

SpecGenerate ==
  /\ Init /\ [][NextGenerate]_vars
  /\ \A q \in Creators : WF_vars(GenerateClientId(q)) /\ WF_vars(Attempt(q))

\* ------------------------------------------------- clientOwnershipMiddleware
\* POST /clients/:clientId/points: authMiddleware and roleMiddleware set
\* req.user, clientOwnershipMiddleware resolves :clientId and sets req.client,
\* addPoints calls processPointsOperation with req.client._id.

\* the :clientId parameters sent: the object id of a client (of "b1", of "b2",
\* of nobody, of the first client created later) or a business-scoped clientId
Params ==
  {[oid |-> c, text |-> <<c>>] : c \in {"c1", "c2", "c0", "n1"}}
    \cup {[oid |-> "none", text |-> t] :
            t \in {InitialClientId("c1"), InitialClientId("c2"), GeneratedId(1)}}

\* the itemId sent in the body
BodyItems == {"earn1", "other1"}

\* mongoose.Types.ObjectId.isValid(clientIdParam)
ObjectIdIsValid(param) == param.oid # "none"

\* Client.findById(clientIdParam): the documents found, none or one
FindById(cl, param) ==
  IF ObjectIdIsValid(param) /\ cl[param.oid].exists THEN {param.oid} ELSE {}

\* Client.findOne({ clientId, businessId }): the documents it may return
FindOneOfBusiness(cl, text, b) ==
  {c \in ClientIds : cl[c].exists /\ cl[c].clientId = text /\ cl[c].businessId = b}

\* Client.findOne({ clientId }): the documents it may return
FindOneOfAny(cl, text) == {c \in ClientIds : cl[c].exists /\ cl[c].clientId = text}

Resolve_noGlobal(cl, user, param) ==
  IF user.role = "business_user"
    THEN FindOneOfBusiness(cl, param.text, user.businessId)
  ELSE FindOneOfAny(cl, param.text)

\* the documents the two lookups of the middleware may end with
Resolve(cl, user, param) ==
  IF FindById(cl, param) # {} THEN FindById(cl, param)
  ELSE IF user.role = "business_user"
    THEN FindOneOfBusiness(cl, param.text, user.businessId)
  ELSE FindOneOfAny(cl, param.text)

\* client.businessId.toString() !== req.user.businessId.toString()
OtherBusiness_unchecked(client, user) == FALSE

OtherBusiness(client, user) == client.businessId # user.businessId

\* what the middleware does with the client it found
OutcomeOf(client, user) ==
  IF user.role = "admin" THEN "next"
  ELSE IF user.role = "business_user" /\ OtherBusiness(client, user) THEN "Forbidden"
  ELSE "next"

\* res.status(...) of the middleware
ResponseStatus(outcome) ==
  CASE outcome = "Forbidden" -> 403
    [] outcome = "NotFound" -> 404
    [] OTHER -> 200

\* requests whose handler has still to start its points call
Handlers == {p \in Procs : req[p].pc = "handler"}

ClientOwnershipMiddleware(p) ==
  /\ ~InFlight(p)
  /\ req[p].pc # "handler"
  /\ calls + Cardinality(Handlers) < MaxCalls
  /\ \E u \in UserIds, param \in Params, i \in BodyItems :
       /\ users[u].exists
       /\ LET found == Resolve(clients, users[u], param)
              request == [NoRequest EXCEPT !.user = u, !.param = param, !.itemId = i]
          IN IF found = {}
               THEN /\ req' = [req EXCEPT ![p] =
                                 [request EXCEPT !.pc = "done", !.outcome = "NotFound"]]
                    /\ calls' = calls + 1
               ELSE \E c \in found :
                      LET outcome == OutcomeOf(clients[c], users[u]) IN
                        /\ req' = [req EXCEPT ![p] =
                                     IF outcome = "next"
                                       THEN [request EXCEPT
                                               !.pc = "handler", !.outcome = "next",
                                               !.client = [id |-> c,
                                                           businessId |-> clients[c].businessId]]
                                       ELSE [request EXCEPT !.pc = "done", !.outcome = outcome]]
                        /\ calls' = IF outcome = "next" THEN calls ELSE calls + 1
  /\ UNCHANGED <<businesses, clients, items, ledger, pc, kind, args, snap, loc, err,
                 wlock, stale, pending, adminOps, requested, refused>>
  /\ UNCHANGED adminVars

\* addPoints: processPointsOperation({ clientObjectId: req.client._id, itemId })
AddPoints(p) ==
  /\ req[p].pc = "handler"
  /\ StartTransactionWith(p, "item", ArgsOf("item", <<req[p].client.id, req[p].itemId>>))
  /\ req' = [req EXCEPT ![p] = [@ EXCEPT !.pc = "core"]]

\* the admin's generateClients of one client for a business
GenerateOneClient(b) == GenerateClients("k1", b, 1)

\* one request at a time
NextAccess ==
  \/ ClientOwnershipMiddleware(1)
  \/ AddPoints(1)
  \/ UpdateClient(1)
  \/ CreateTransaction(1)
  \/ Commit(1)
  \/ Abort(1)
  \/ \E b \in Businesses : GenerateOneClient(b)

SpecAccess == Init /\ [][NextAccess]_vars

\* ------------------------------------------------------------ activateClient
\* POST /api/client/:businessSlug/:clientId/activate, a public route

\* the :clientId parameters sent: the first two bulk identifiers and the
\* identifier of the first client of "b1"
ActivationParams == {GeneratedId(1), GeneratedId(2), InitialClientId("c1")}

\* the activationCode values sent in the body
ActivationCodes == {"1234", "0000"}

\* business.activationCode && business.activationCode !== activationCode
InvalidActivationCode(business, code) ==
  business.activationCode # NoActivationCode /\ business.activationCode # code

\* the status activateClient answers with
ActivationStatus(business, found, code) ==
  IF code = "" THEN 400
  ELSE IF BusinessMissing(business) THEN 404
  ELSE IF InvalidActivationCode(business, code) THEN 403
  ELSE IF found = {} THEN 404
  ELSE IF \E c \in found : clients[c].isActivated THEN 400
  ELSE 200

\* activateClient: Business.findOne({ slug }), the activation code check,
\* Client.findOne({ businessId, clientId }), client.isActivated = true, save
ActivateClient(b, text, code) ==
  /\ LET found == FindOneOfBusiness(clients, text, b)
         status == ActivationStatus(businesses[b], found, code)
     IN /\ activation' = [businessId |-> b, clientId |-> text,
                          activationCode |-> code, status |-> status]
        /\ clients' = IF status = 200
                        THEN [c \in ClientIds |->
                                IF c \in found THEN [clients[c] EXCEPT !.isActivated = TRUE]
                                ELSE clients[c]]
                        ELSE clients
  /\ UNCHANGED <<businesses, items, ledger, pc, kind, args, snap, loc, err,
                 wlock, stale, pending, calls, adminOps, requested, refused,
                 users, deletion, creation, nextClient, req>>
  /\ UNCHANGED <<authVars, session>>

\* cards made in bulk, and requests to activate them
NextCards ==
  \/ \E b \in Businesses : GenerateOneClient(b)
  \/ \E b \in Businesses, text \in ActivationParams, code \in ActivationCodes :
       ActivateClient(b, text, code)

SpecCards == Init /\ [][NextCards]_vars

\* ------------------------------------------------------------ refresh tokens
\* auth.service.js and the login, refresh and logout handlers

\* what the auth handlers never touch
storeVars == <<businesses, clients, items, ledger, pc, kind, args, snap, loc, err,
               wlock, stale, pending, calls, adminOps, requested, refused,
               users, deletion, creation, nextClient, req, activation, session>>

\* the e-mail addresses a login names: that of a user and one of nobody
LoginNames == {"u1", "nobody"}

\* RefreshToken.findOne({ token: hashedToken, ... }): the documents with that hash
FindToken(tk, hashedToken) ==
  {t \in TokenStrings : tk[t].exists /\ tk[t].token = hashedToken}

FindValidToken_revokedToo(tk, hashedToken, now) ==
  {t \in FindToken(tk, hashedToken) : tk[t].expiresAt > now}

\* RefreshToken.findOne({ token, isRevoked: false, expiresAt: { $gt: new Date() } })
FindValidToken(tk, hashedToken, now) ==
  {t \in FindToken(tk, hashedToken) : ~tk[t].isRevoked /\ tk[t].expiresAt > now}

\* verifyRefreshToken(token): the user id of the document found, or null
VerifyResult(tk, token, now) ==
  LET found == FindValidToken(tk, Sha256(token), now)
  IN IF found = {} THEN "null" ELSE tk[CHOOSE t \in found : TRUE].userId

\* RefreshToken.updateOne({ token: hashedToken }, { isRevoked: true })
TokensAfterRevoke(tk, hashedToken) ==
  [t \in TokenStrings |->
     IF t \in FindToken(tk, hashedToken) THEN [tk[t] EXCEPT !.isRevoked = TRUE] ELSE tk[t]]

\* result.modifiedCount > 0
RevokeResult(tk, hashedToken) == \E t \in FindToken(tk, hashedToken) : ~tk[t].isRevoked

\* login: User.findOne({ email }), comparePassword, generateAccessToken,
\* generateRefreshToken (RefreshToken.create of the hash, expiring in 7 days)
Login(u) ==
  /\ nextToken < MaxTokens
  /\ IF u \in UserIds /\ users[u].exists
       THEN LET token == IssuedTokens[nextToken + 1] IN
              /\ tokens' = [tokens EXCEPT ![token] =
                              [exists |-> TRUE, token |-> Sha256(token), userId |-> u,
                               expiresAt |-> clock + RefreshLifetime, isRevoked |-> FALSE]]
              /\ nextToken' = nextToken + 1
              /\ auth' = [op |-> "login", token |-> token, result |-> u, status |-> 200]
       ELSE /\ auth' = [op |-> "login", token |-> "none", result |-> "none", status |-> 401]
            /\ UNCHANGED <<tokens, nextToken>>
  /\ UNCHANGED <<clock, authLog>>
  /\ UNCHANGED storeVars

\* verifyRefreshToken(token)
VerifyRefreshToken(token) ==
  /\ auth' = [op |-> "verify", token |-> token,
              result |-> VerifyResult(tokens, token, clock), status |-> 0]
  /\ UNCHANGED <<tokens, nextToken, clock, authLog>>
  /\ UNCHANGED storeVars

\* refresh: verifyRefreshToken, User.findById, generateAccessToken
Refresh(token) ==
  /\ LET userId == VerifyResult(tokens, token, clock)
         status == IF userId = "null" THEN 401
                   ELSE IF ~users[userId].exists THEN 401
                   ELSE 200
     IN /\ auth' = [op |-> "refresh", token |-> token, result |-> userId,
                    status |-> status]
  /\ UNCHANGED <<tokens, nextToken, clock, authLog>>
  /\ UNCHANGED storeVars

\* logout: revokeRefreshToken(refreshToken)
Logout(token) ==
  /\ tokens' = TokensAfterRevoke(tokens, Sha256(token))
  /\ auth' = [op |-> "logout", token |-> token,
              result |-> RevokeResult(tokens, Sha256(token)), status |-> 200]
  /\ authLog' = [authLog EXCEPT !.revoked = @ \cup {token}]
  /\ UNCHANGED <<nextToken, clock>>
  /\ UNCHANGED storeVars

\* a week passes
Tick ==
  /\ clock < MaxClock
  /\ clock' = clock + 1
  /\ UNCHANGED <<tokens, nextToken, auth, authLog>>
  /\ UNCHANGED storeVars

\* the TTL index on expiresAt (expireAfterSeconds: 0): the store deletes a
\* document some time after its date has passed
ExpireToken(t) ==
  /\ tokens[t].exists
  /\ tokens[t].expiresAt < clock
  /\ tokens' = [tokens EXCEPT ![t] = NoToken]
  /\ UNCHANGED <<nextToken, clock, auth, authLog>>
  /\ UNCHANGED storeVars

\* the tokens a client presents: those it was given, and one it never was
Presented == {IssuedTokens[k] : k \in 1..nextToken} \cup {"invalid-token"}

NextAuth ==
  \/ \E u \in LoginNames : Login(u)
  \/ \E t \in Presented : VerifyRefreshToken(t)
  \/ \E t \in Presented : Refresh(t)
  \/ \E t \in Presented : Logout(t)
  \/ Tick
  \/ \E t \in TokenStrings : ExpireToken(t)

SpecAuth == Init /\ [][NextAuth]_vars

TypeOK ==
  /\ \A p \in Procs : pc[p] \in {"idle", "update", "create", "commit", "abort"}
  /\ calls \in 0..MaxCalls
  /\ \A c \in ClientIds : wlock[c] \in {0, Deleter} \cup Procs
  /\ \A p \in Procs : /\ req[p].pc \in {"idle", "done", "handler", "core"}
                       /\ req[p].outcome \in {"none", "next", "Forbidden", "NotFound"}

\* ------------------------------------------------------------ properties

\* the ledger entries of one client, in creation order
EntriesOf(c) == SelectSeq(ledger, LAMBDA e : e.clientId = c)

Last(seq) == seq[Len(seq)]

RECURSIVE SumPoints(_)
SumPoints(seq) == IF seq = <<>> THEN 0 ELSE seq[1].points + SumPoints(Tail(seq))

\* call p takes the step that leaves position `from`
Leaves(p, from) == pc[p] = from /\ pc'[p] # from

StoreUnchanged == clients' = clients /\ ledger' = ledger

\* the lookups of call p found its client, its item (an item of the client's
\* business) and its business
PassedLookups(p) ==
  /\ snap[p].client.exists
  /\ kind[p] = "item" =>
       snap[p].item.exists /\ snap[p].item.businessId = snap[p].client.businessId
  /\ snap[p].business.exists

\* the after-balance the overdraft check of call p is about
ComputedAfter(p) ==
  snap[p].client.points +
    (IF kind[p] = "manual" THEN args[p].pointsChange
     ELSE IF snap[p].item.type = "earn" THEN snap[p].item.points
     ELSE 0 - snap[p].item.points)

\* C1: every ledger entry ever committed, by an item operation or a manual
\* adjustment, has afterPoints = beforePoints + points.
C1_LedgerArithmetic ==
  \A k \in 1..Len(ledger) :
    ledger[k].afterPoints = ledger[k].beforePoints + ledger[k].points

C1_Witness ==
  /\ \E k \in 1..Len(ledger) : ledger[k].itemId = "null" /\ ledger[k].points < 0
  /\ \E k \in 1..Len(ledger) : ledger[k].itemId # "null"

\* C2: at every moment, whatever calls are in flight, have failed or have
\* committed, the stored balance of each client is the afterPoints of the
\* client's latest ledger entry, or the balance it was created with when it
\* has no entry.
C2_BalanceIsLastAfter ==
  \A c \in ClientIds :
    clients[c].exists =>
      clients[c].points = IF EntriesOf(c) = <<>> THEN InitialPoints(c)
                          ELSE Last(EntriesOf(c)).afterPoints

C2_Witness ==
  /\ Len(EntriesOf("c1")) >= 1
  /\ \E p \in Procs : pc[p] = "commit" /\ args[p].clientObjectId = "c1"
                      /\ loc[p].afterPoints # clients["c1"].points

\* C3: a call that read allowNegativePoints = false and computes a negative
\* after-balance fails with the insufficient-points error and leaves balances
\* and ledger as they are; no call that read allowNegativePoints = false
\* commits a balance below 0.
C3_NoOverdraft ==
  [][\A p \in Procs :
       /\ ( /\ Leaves(p, "idle")
            /\ PassedLookups(p)'
            /\ ~snap'[p].business.allowNegativePoints
            /\ ComputedAfter(p)' < 0 )
          => /\ pc'[p] = "abort"
             /\ err'[p] = "InsufficientPoints"
             /\ StoreUnchanged
       /\ (Leaves(p, "abort") /\ err[p] = "InsufficientPoints") => StoreUnchanged
       /\ (Leaves(p, "commit") /\ ~snap[p].business.allowNegativePoints)
          => clients'[args[p].clientObjectId].points >= 0
     ]_vars

C3_Witness ==
  /\ \E p \in Procs : pc[p] = "abort" /\ err[p] = "InsufficientPoints" /\ kind[p] = "item"
  /\ \E p \in Procs : pc[p] = "abort" /\ err[p] = "InsufficientPoints" /\ kind[p] = "manual"

\* C4: balances and ledger change only in the commit step of a call that met
\* no error, and that step changes one client's balance and appends one
\* entry for that client together; every step of a call that fails (not
\* found, cross-tenant, insufficient balance, ledger insert refused after
\* the balance write) leaves every balance and the ledger as they were.
C4_AllOrNothing ==
  [][ /\ ~StoreUnchanged =>
           \E p \in Procs :
             /\ Leaves(p, "commit")
             /\ err[p] = "none"
             /\ Len(ledger') = Len(ledger) + 1
             /\ SubSeq(ledger', 1, Len(ledger)) = ledger
             /\ Last(ledger').clientId = args[p].clientObjectId
             /\ clients'[args[p].clientObjectId].points = Last(ledger').afterPoints
             /\ \A c \in ClientIds \ {args[p].clientObjectId} : clients'[c] = clients[c]
      /\ \A p \in Procs :
           (pc'[p] # pc[p] /\ (err[p] # "none" \/ err'[p] # "none")) => StoreUnchanged
    ]_vars

C4_Witness ==
  \E p \in Procs :
    /\ pc[p] = "abort"
    /\ err[p] = "StoreError"
    /\ wlock[args[p].clientObjectId] = p
    /\ clients[args[p].clientObjectId].points = loc[p].beforePoints
    /\ loc[p].afterPoints # loc[p].beforePoints

\* C5: from its balance write to its commit, the beforePoints a call holds
\* is the stored balance of its client and no other call holds a write on
\* that client: no other balance update to the client commits between the
\* call's read and its commit.
C5_Serialized ==
  \A p \in Procs :
    pc[p] \in {"create", "commit"} =>
      /\ loc[p].beforePoints = clients[args[p].clientObjectId].points
      /\ wlock[args[p].clientObjectId] = p

C5_Witness ==
  \E p, q \in Procs :
    /\ p # q
    /\ pc[p] = "commit"
    /\ pc[q] = "abort" /\ err[q] = "WriteConflict"
    /\ args[p].clientObjectId = args[q].clientObjectId

AllIdle == \A p \in Procs : pc[p] = "idle"

\* C6 as stated: once all calls have returned, every call that passed the
\* checks has left its delta in the balance and its entry in the ledger.
C6_Original ==
  AllIdle =>
    \A c \in ClientIds :
      clients[c].exists =>
        /\ clients[c].points = InitialPoints(c) + requested[c].sum
        /\ Len(EntriesOf(c)) = requested[c].n

\* C6 amended: a call that passed the checks commits or is thrown out by a
\* write conflict (nothing retries it); once all calls have returned, the
\* balance is the initial balance plus the deltas of the calls that were not
\* thrown out, there is exactly one entry for each of them, and at every
\* moment the entries of a client chain from its initial balance to its
\* stored balance.
C6_CommittedChain ==
  \A c \in ClientIds :
    clients[c].exists =>
      LET es == EntriesOf(c) IN
        /\ \A k \in 1..Len(es) :
             es[k].beforePoints = IF k = 1 THEN InitialPoints(c) ELSE es[k-1].afterPoints
        /\ clients[c].points = InitialPoints(c) + SumPoints(es)
        /\ AllIdle =>
             /\ clients[c].points = InitialPoints(c) + requested[c].sum - refused[c].sum
             /\ Len(es) = requested[c].n - refused[c].n

C6_Witness ==
  /\ AllIdle
  /\ refused["c1"].n = 1
  /\ Len(EntriesOf("c1")) = 1
  /\ requested["c1"].n = 2

\* C7: an item operation whose item exists and belongs to another business
\* than the client fails with the cross-tenant error (400) under any
\* overdraft policy, and none of its steps changes a balance or the ledger.
C7_CrossTenant ==
  [][\A p \in Procs :
       /\ ( /\ Leaves(p, "idle")
            /\ kind'[p] = "item"
            /\ snap'[p].client.exists
            /\ snap'[p].item.exists
            /\ snap'[p].item.businessId # snap'[p].client.businessId )
          => /\ pc'[p] = "abort"
             /\ err'[p] = "CrossTenant"
             /\ StatusOf(err'[p]) = 400
             /\ StoreUnchanged
       /\ (Leaves(p, "abort") /\ err[p] = "CrossTenant") => StoreUnchanged
       /\ ( /\ kind[p] = "item"
            /\ pc[p] \in {"update", "create", "commit"} )
          => snap[p].item.businessId = snap[p].client.businessId
     ]_vars

C7_Witness ==
  \E p \in Procs : /\ pc[p] = "abort" /\ err[p] = "CrossTenant"
                    /\ snap[p].business.allowNegativePoints

\* C8: a call that read allowNegativePoints = true is never refused by the
\* overdraft check, and when it commits a negative after-balance the stored
\* balance and the afterPoints of its ledger entry are that negative value.
C8_OverdraftAllowed ==
  [][\A p \in Procs :
       /\ ( /\ Leaves(p, "idle")
            /\ PassedLookups(p)'
            /\ snap'[p].business.allowNegativePoints
            /\ ComputedAfter(p)' < 0 )
          => /\ pc'[p] = "update"
             /\ err'[p] = "none"
             /\ loc'[p].afterPoints = ComputedAfter(p)'
       /\ ( /\ Leaves(p, "commit")
            /\ snap[p].business.allowNegativePoints
            /\ ComputedAfter(p) < 0 )
          => /\ clients'[args[p].clientObjectId].points = ComputedAfter(p)
             /\ Last(ledger').afterPoints = ComputedAfter(p)
             /\ Last(ledger').clientId = args[p].clientObjectId
     ]_vars

C8_Witness ==
  /\ clients["c1"].points < 0
  /\ EntriesOf("c1") # <<>>
  /\ Last(EntriesOf("c1")).afterPoints = clients["c1"].points

\* C9: the commit of an item operation changes the stored balance by
\* +item.points for an earn item and by -item.points for a redeem item, the
\* appended entry records that signed delta, and the beforePoints and
\* afterPoints it returns are the stored balance just before and just after.
C9_ItemDelta ==
  [][\A p \in Procs :
       (Leaves(p, "commit") /\ kind[p] = "item") =>
         LET c == args[p].clientObjectId
             d == IF snap[p].item.type = "earn" THEN snap[p].item.points
                  ELSE 0 - snap[p].item.points
         IN /\ clients'[c].points = clients[c].points + d
            /\ Last(ledger').points = d
            /\ Last(ledger').itemId = args[p].itemId
            /\ loc[p].pointsChange = d
            /\ loc[p].beforePoints = clients[c].points
            /\ loc[p].afterPoints = clients'[c].points
     ]_vars

C9_Witness ==
  /\ \E k \in 1..Len(ledger) : ledger[k].itemId = "earn1" /\ ledger[k].points = 1
  /\ \E k \in 1..Len(ledger) : ledger[k].itemId = "redeem2" /\ ledger[k].points = -2

\* C10: a call whose client does not exist fails with the 404 client error,
\* an item operation whose item does not exist fails with the 404 item
\* error, and none of their steps changes a balance or the ledger.
C10_NotFound ==
  [][\A p \in Procs :
       /\ (Leaves(p, "idle") /\ ~clients[args'[p].clientObjectId].exists)
          => /\ pc'[p] = "abort"
             /\ err'[p] = "ClientNotFound"
             /\ StatusOf(err'[p]) = 404
             /\ StoreUnchanged
       /\ ( /\ Leaves(p, "idle")
            /\ kind'[p] = "item"
            /\ clients[args'[p].clientObjectId].exists
            /\ ~items[args'[p].itemId].exists )
          => /\ pc'[p] = "abort"
             /\ err'[p] = "ItemNotFound"
             /\ StatusOf(err'[p]) = 404
             /\ StoreUnchanged
       /\ (Leaves(p, "abort") /\ err[p] \in {"ClientNotFound", "ItemNotFound"})
          => StoreUnchanged
       /\ pc[p] \in {"update", "create", "commit"}
          => /\ snap[p].client.exists
             /\ kind[p] = "item" => snap[p].item.exists
     ]_vars

C10_Witness ==
  /\ \E p \in Procs : pc[p] = "abort" /\ err[p] = "ItemNotFound"
  /\ \E p \in Procs : pc[p] = "abort" /\ err[p] = "ClientNotFound" /\ kind[p] = "manual"

\* the lookups of the step call p takes found its client and, for an item
\* operation, an item of the client's business, but no business
FindsNoBusiness(p) ==
  /\ Leaves(p, "idle")
  /\ snap'[p].client.exists
  /\ kind'[p] = "item" =>
       /\ snap'[p].item.exists
       /\ snap'[p].item.businessId = snap'[p].client.businessId
  /\ ~snap'[p].business.exists

\* C11 as stated: when client and item exist and the business cannot be
\* loaded, the call fails with an error of another kind than NotFound (404).
C11_Original ==
  [][\A p \in Procs :
       FindsNoBusiness(p) =>
         /\ pc'[p] = "abort"
         /\ StatusOf(err'[p]) # StatusOf("ClientNotFound")
         /\ StoreUnchanged
     ]_vars

\* C11 amended: when client and item exist and the business cannot be
\* loaded, the call fails with the 404 "Business not found" error, the same
\* kind as a missing client or item, and none of its steps changes a balance
\* or the ledger.
C11_BusinessNotFound ==
  [][\A p \in Procs :
       /\ FindsNoBusiness(p) =>
            /\ pc'[p] = "abort"
            /\ err'[p] = "BusinessNotFound"
            /\ StatusOf(err'[p]) = 404
            /\ StatusOf(err'[p]) = StatusOf("ItemNotFound")
            /\ StoreUnchanged
       /\ (Leaves(p, "abort") /\ err[p] = "BusinessNotFound") => StoreUnchanged
       /\ pc[p] \in {"update", "create", "commit"} => snap[p].business.exists
     ]_vars

C11_Witness ==
  \E p \in Procs :
    /\ pc[p] = "abort" /\ err[p] = "BusinessNotFound" /\ kind[p] = "item"
    /\ snap[p].client.exists /\ snap[p].item.exists
    /\ ~businesses[snap[p].client.businessId].exists

\* C12: a manual adjustment with a zero delta fails: no ledger entry with
\* points = 0 is ever appended.
C12_ZeroDeltaRejected ==
  \A k \in 1..Len(ledger) : ledger[k].points # 0

\* C13: once a business is deleted, no client, item, ledger entry or
\* business user that references it is left.
C13_DeleteComplete ==
  \A b \in Businesses :
    ~businesses[b].exists =>
      /\ \A c \in ClientIds : ~(clients[c].exists /\ clients[c].businessId = b)
      /\ \A i \in ItemIds : ~(items[i].exists /\ items[i].businessId = b)
      /\ \A k \in 1..Len(ledger) : ledger[k].businessId # b
      /\ \A u \in UserIds : ~(users[u].exists /\ users[u].businessId = b)

\* C14: when a points call commits, the item, the client and the business its
\* ledger entry references are all still in the store.
C14_NoDeletedReference ==
  [][\A p \in Procs :
       Leaves(p, "commit") =>
         /\ kind[p] = "item" => items[args[p].itemId].exists
         /\ clients[args[p].clientObjectId].exists
         /\ businesses[snap[p].client.businessId].exists
     ]_vars

\* generateClientId returns to the request q in this step
Returns(q) == creation[q].pc = "attempt" /\ creation'[q].pc = "insert"

\* C15: every identifier generateClientId returns, from a random attempt or
\* from the fallback, differs from the clientId of every client of that
\* business existing at the moment of return
C15_UniqueAtReturn ==
  [][\A q \in Creators :
       Returns(q) =>
         ~ClientIdTaken(clients, creation[q].businessId, creation'[q].clientId)]_vars

\* C16: every clientId stored for a client satisfies isValidClientIdFormat
C16_StoredFormat ==
  \A c \in ClientIds : clients[c].exists => IsValidClientIdFormat(clients[c].clientId)

\* C17: a call of generateClientId returns an identifier different from the
\* one an earlier call for the same business returned, also when no client
\* was inserted in between
C17_SuccessiveDistinct ==
  [][\A q \in Creators : Returns(q) => creation'[q].clientId \notin creation[q].seen]_vars

\* no two clients share the pair (businessId, clientId)
UniquePairs ==
  \A c, d \in ClientIds :
    (clients[c].exists /\ clients[d].exists /\ c # d
       /\ clients[c].businessId = clients[d].businessId)
      => clients[c].clientId # clients[d].clientId

\* the request q is about to insert a pair a client already has
AboutToDuplicate(q) ==
  \/ /\ creation[q].pc = "insert"
     /\ ClientIdTaken(clients, creation[q].businessId, creation[q].clientId)
  \/ /\ creation[q].pc = "insertMany"
     /\ ClientIdTaken(clients, creation[q].businessId,
                      GeneratedId(creation[q].maxNum + 1))

\* C18: whatever the interleaving of single and bulk creations, no two clients
\* share the pair (businessId, clientId), and an insert that would duplicate
\* a pair stores nothing
C18_UniquePair ==
  [][/\ UniquePairs'
     /\ \A q \in Creators :
          (AboutToDuplicate(q) /\ creation'[q].pc = "idle") => clients' = clients]_vars

\* one clientId under two businesses while a request is about to duplicate a
\* pair of another client
C18_Witness ==
  /\ \E c, d \in ClientIds :
       /\ clients[c].exists /\ clients[d].exists
       /\ clients[c].businessId # clients[d].businessId
       /\ clients[c].clientId = clients[d].clientId
       /\ clients[c].clientId = GeneratedId(1)
  /\ \E q \in Creators : AboutToDuplicate(q)
  /\ nextClient > 0

\* the request of p comes from a business_user
FromOperator(r) == r.user \in UserIds /\ users[r.user].role = "business_user"

\* C19: for a business_user, clientOwnershipMiddleware calls next() only with
\* a client of the caller's business, whether :clientId is an object id or a
\* business-scoped clientId; otherwise the request ends with 403 or 404 and
\* has no req.client
C19_OperatorScoped ==
  \A p \in Procs :
    (req[p].pc # "idle" /\ FromOperator(req[p])) =>
      IF req[p].outcome = "next"
        THEN /\ req[p].client.id \in ClientIds
             /\ req[p].client.businessId = users[req[p].user].businessId
             /\ (req[p].pc = "core" /\ InFlight(p)) =>
                  args[p].clientObjectId = req[p].client.id
        ELSE /\ req[p].pc = "done"
             /\ req[p].outcome \in {"Forbidden", "NotFound"}
             /\ ResponseStatus(req[p].outcome) \in {403, 404}
             /\ req[p].client = NoAttached

\* a business_user names by clientId a client of his business while a client
\* of the other business has the same clientId, and the points call is made
C19_Witness ==
  \E p \in Procs :
    /\ FromOperator(req[p])
    /\ req[p].pc = "core"
    /\ req[p].param.oid = "none"
    /\ \E c \in ClientIds :
         /\ clients[c].exists
         /\ clients[c].clientId = req[p].param.text
         /\ clients[c].businessId # users[req[p].user].businessId
    /\ pc[p] = "update"

\* the request r of a business_user names, by object id, a client of another
\* business and an item of the user's business
NamesClientOfOther(r) ==
  /\ FromOperator(r)
  /\ r.param.oid \in ClientIds
  /\ clients[r.param.oid].exists
  /\ clients[r.param.oid].businessId # users[r.user].businessId
  /\ items[r.itemId].exists
  /\ items[r.itemId].businessId = users[r.user].businessId

\* the same, the client named by a clientId no client of the user's business has
NamesClientIdOfOther(r) ==
  /\ FromOperator(r)
  /\ r.param.oid = "none"
  /\ FindOneOfAny(clients, r.param.text) # {}
  /\ FindOneOfBusiness(clients, r.param.text, users[r.user].businessId) = {}
  /\ items[r.itemId].exists
  /\ items[r.itemId].businessId = users[r.user].businessId

\* the middleware answers the request of p in this step
Answers(p) == req'[p] # req[p] /\ req'[p].pc \in {"done", "handler"}

\* C20 as stated: a business_user of one business who asks for an item of his
\* business on a client of another business gets the CrossTenant error
C20_Original ==
  \A p \in Procs :
    (req[p].pc = "done" /\ NamesClientOfOther(req[p])) => req[p].outcome = "CrossTenant"

\* C20, amended: that request ends in clientOwnershipMiddleware with 403
\* Forbidden when the client is named by object id and with 404 NotFound when
\* it is named by clientId; no client is put on the request, no points call
\* is started for it and no document changes
C20_Forbidden ==
  [][\A p \in Procs :
       /\ (Answers(p) /\ (NamesClientOfOther(req'[p]) \/ NamesClientIdOfOther(req'[p]))) =>
            /\ req'[p].pc = "done"
            /\ req'[p].outcome = IF NamesClientOfOther(req'[p]) THEN "Forbidden" ELSE "NotFound"
            /\ ResponseStatus(req'[p].outcome) = IF NamesClientOfOther(req'[p]) THEN 403 ELSE 404
            /\ req'[p].client = NoAttached
            /\ pc'[p] = "idle" /\ err' = err /\ args' = args
            /\ StoreUnchanged /\ businesses' = businesses /\ items' = items
       /\ (req[p].pc = "handler" /\ req'[p].pc = "core" /\ FromOperator(req[p])) =>
            clients[args'[p].clientObjectId].businessId = users[req[p].user].businessId]_vars

\* the business_user of "b1" was refused the client of "b2" with an item of "b1"
C20_Witness ==
  /\ req[1].pc = "done"
  /\ req[1].user = "u1"
  /\ req[1].param.oid = "c2"
  /\ req[1].itemId = "earn1"
  /\ req[1].outcome = "Forbidden"
  /\ ledger = <<>>

\* the client c is made by generateClients in this step
MadeInBulk(c) ==
  ~clients[c].exists /\ clients'[c].exists /\ IsGeneratedId(clients'[c].clientId)

\* C21: a card made by bulk generation starts unactivated, and the first
\* activation request for it succeeds
C21_StartsUnactivated ==
  [][/\ \A c \in ClientIds : MadeInBulk(c) => ~clients'[c].isActivated
     /\ (/\ activation = NoActivation
         /\ activation' # activation
         /\ IsGeneratedId(activation'.clientId)
         /\ FindOneOfBusiness(clients, activation'.clientId, activation'.businessId) # {})
          => activation'.status = 200]_vars

\* ------------------------------------------- a balance left below zero
\* Points calls on the first client of "b1" next to the admin's change of
\* allowNegativePoints: a manual adjustment that takes the balance to -2
\* while overdraft is allowed, and an earn item or a positive adjustment
\* after it.
DebtItemRequests == {<<"c1", "earn1">>}
DebtManualRequests == {<<"c1", -3>>, <<"c1", 1>>}

DebtStartTransaction(p) ==
  /\ \E k \in {"item", "manual"} :
       \E r \in IF k = "item" THEN DebtItemRequests ELSE DebtManualRequests :
         StartTransactionWith(p, k, ArgsOf(k, r))
  /\ UNCHANGED req

NextDebt ==
  \/ \E p \in Procs : DebtStartTransaction(p)
  \/ \E p \in Procs : UpdateClient(p)
  \/ \E p \in Procs : CreateTransaction(p)
  \/ \E p \in Procs : Commit(p)
  \/ \E p \in Procs : Abort(p)
  \/ \E b \in UpdatedBusinesses, v \in BOOLEAN : UpdateBusiness(b, v)

SpecDebt == Init /\ [][NextDebt]_vars

\* ------------------------------------- the session of a points call
\* try { startTransaction ... commitTransaction; return } catch (error)
\* { abortTransaction; throw error } finally { endSession }, with a
\* commitTransaction that the store may reject.
SessionItemRequests == {<<"c1", "earn1">>, <<"c1", "redeem2">>, <<"c0", "earn1">>}
SessionManualRequests == {<<"c1", -2>>}

SessionStartTransaction(p) ==
  /\ \E k \in {"item", "manual"} :
       \E r \in IF k = "item" THEN SessionItemRequests ELSE SessionManualRequests :
         StartTransactionWith(p, k, ArgsOf(k, r))
  /\ UNCHANGED req

\* the variables next to session that the end of a call leaves alone
sessionFrame == <<users, deletion, creation, nextClient, activation, authVars, req>>

\* await session.commitTransaction() resolves; return { success: true, ... };
\* finally: session.endSession()
CommitAndReturn(p) ==
  /\ CommitTransaction(p)
  /\ session' = [session EXCEPT ![p] =
                   [result |-> "returned", commits |-> 1, aborts |-> 0, ends |-> 1,
                    error |-> "none", cause |-> "none"]]
  /\ UNCHANGED sessionFrame

\* await session.commitTransaction() rejects: the store has dropped the
\* transaction, control goes to the catch block
CommitRejected(p) ==
  /\ pc[p] = "commit"
  /\ pc' = [pc EXCEPT ![p] = "abort"]
  /\ err' = [err EXCEPT ![p] = "CommitError"]
  /\ requested' = [requested EXCEPT ![args[p].clientObjectId] =
                     [sum |-> @.sum - loc[p].pointsChange, n |-> @.n - 1]]
  /\ UNCHANGED <<businesses, clients, items, ledger, kind, args, snap, loc, wlock,
                 stale, pending, calls, adminOps, refused>>
  /\ UNCHANGED extVars

\* catch (error) of a throw made before commitTransaction:
\* session.abortTransaction(); throw error; finally: session.endSession()
AbortAndThrow(p) ==
  /\ err[p] # "CommitError"
  /\ AbortTransaction(p)
  /\ session' = [session EXCEPT ![p] =
                   [result |-> "thrown", commits |-> 0, aborts |-> 1, ends |-> 1,
                    error |-> err[p], cause |-> err[p]]]
  /\ UNCHANGED sessionFrame

\* catch (error) of a commitTransaction that rejected: abortTransaction is
\* called on a session whose commitTransaction was already called; when the
\* driver refuses that call, its error leaves the catch block in place of
\* `error`; finally: session.endSession()
AbortAfterCommit(p) ==
  /\ err[p] = "CommitError"
  /\ AbortTransaction(p)
  /\ \E abortThrows \in BOOLEAN :
       session' = [session EXCEPT ![p] =
                     [result |-> "thrown", commits |-> 1, aborts |-> 1, ends |-> 1,
                      error |-> IF abortThrows THEN "TransactionError" ELSE err[p],
                      cause |-> err[p]]]
  /\ UNCHANGED sessionFrame

NextSession ==
  \/ \E p \in Procs : SessionStartTransaction(p)
  \/ \E p \in Procs : UpdateClient(p)
  \/ \E p \in Procs : CreateTransaction(p)
  \/ \E p \in Procs : CommitAndReturn(p)
  \/ \E p \in Procs : CommitRejected(p)
  \/ \E p \in Procs : AbortAndThrow(p)
  \/ \E p \in Procs : AbortAfterCommit(p)

SpecSession == Init /\ [][NextSession]_vars

\* ------------------------------------------------ every writer of the store
\* One points call at a time next to the handlers that write businesses,
\* items and clients: updateBusiness, deleteItem, createClient,
\* deleteBusiness and activateClient.
FrameItemRequests == {<<"c1", "earn1">>}
FrameManualRequests == {<<"n1", 1>>}
FrameActivations == {<<"b1", InitialClientId("c1"), "1234">>}

FrameStartTransaction(p) ==
  /\ \E k \in {"item", "manual"} :
       \E r \in IF k = "item" THEN FrameItemRequests ELSE FrameManualRequests :
         StartTransactionWith(p, k, ArgsOf(k, r))
  /\ UNCHANGED req

NextFrame ==
  \/ FrameStartTransaction(1)
  \/ UpdateClient(1)
  \/ CreateTransaction(1)
  \/ Commit(1)
  \/ Abort(1)
  \/ \E b \in UpdatedBusinesses, v \in BOOLEAN : UpdateBusiness(b, v)
  \/ \E i \in DeletedItems : DeleteItem(i)
  \/ CreateFirstClient
  \/ DeleteBusiness("b1")
  \/ \E a \in FrameActivations : ActivateClient(a[1], a[2], a[3])

SpecFrame == Init /\ [][NextFrame]_vars

\* the document of the token is stored, unrevoked and unexpired
StoredUnrevokedUnexpired(t) ==
  tokens[t].exists /\ ~tokens[t].isRevoked /\ tokens[t].expiresAt > clock

\* the token was returned by some generateRefreshToken
Issued(t) == \E k \in 1..nextToken : IssuedTokens[k] = t

\* C22: verifyRefreshToken returns the user id of a token only while the token
\* is stored, unrevoked and unexpired; it returns null for a token
\* revokeRefreshToken was applied to, and for a token that was never issued
C22_VerifiesOnlyWhileValid ==
  [][\A t \in TokenStrings : VerifyRefreshToken(t) =>
       /\ auth'.result # "null" =>
            StoredUnrevokedUnexpired(t) /\ auth'.result = tokens[t].userId
       /\ StoredUnrevokedUnexpired(t) => auth'.result = tokens[t].userId
       /\ t \in authLog.revoked => auth'.result = "null"
       /\ ~Issued(t) => auth'.result = "null"]_vars

\* a token that was issued, then revoked a week before it expires, was verified
\* and null was returned
C22_Witness ==
  /\ auth.op = "verify"
  /\ auth.result = "null"
  /\ Issued(auth.token)
  /\ auth.token \in authLog.revoked
  /\ tokens[auth.token].exists
  /\ tokens[auth.token].expiresAt > clock

\* the refresh request with this token would be answered 200
Accepted(tk, us, token, now) ==
  LET userId == VerifyResult(tk, token, now)
  IN userId # "null" /\ us[userId].exists

\* C23: after a refresh request was answered 200 for a refresh token, a
\* refresh request with that token is no longer accepted
C23_Rotated ==
  [][\A t \in TokenStrings : (Refresh(t) /\ auth'.status = 200) =>
       ~Accepted(tokens', users', t, clock')]_vars

\* a step of the points call p
CallStep(p) == pc'[p] # pc[p]

\* the points call p returns { success: true }
CallReturns(p) == pc[p] = "commit" /\ pc'[p] = "idle"

\* the ledger after the step is the ledger before it and one more entry
OneAppended == Len(ledger') = Len(ledger) + 1 /\ SubSeq(ledger', 1, Len(ledger)) = ledger

\* the step commits the deletion of a business
DeletionCommits == deletion.pc = "commit" /\ deletion'.pc = "idle"

\* C24: only the commit of a business deletion changes or removes a ledger
\* entry; every other step that changes the ledger is the return of a
\* successful points call, and each such return appends exactly one entry
C24_AppendOnly ==
  [][/\ ledger' # ledger =>
          DeletionCommits \/ (OneAppended /\ \E p \in Procs : CallReturns(p))
     /\ \A p \in Procs : CallReturns(p) => OneAppended]_vars

\* two points calls have each appended an entry while the admin changed the
\* business and an activation request was answered
C24_Witness ==
  /\ Len(ledger) = 2
  /\ ledger[2].beforePoints = ledger[1].afterPoints
  /\ adminOps = 1
  /\ activation # NoActivation

\* C25: the points of an existing client change only in a step of a points
\* call on that client; activateClient, updateBusiness, deleteItem and
\* createClient leave every points value of an existing client unchanged
C25_PointsOnlyByCalls ==
  [][/\ \A c \in ClientIds :
          (clients[c].exists /\ clients'[c].exists
             /\ clients'[c].points # clients[c].points) =>
            \E p \in Procs : CallStep(p) /\ args[p].clientObjectId = c
     /\ (activation' # activation \/ adminOps' # adminOps \/ creation' # creation) =>
          \A c \in ClientIds : clients[c].exists => clients'[c].points = clients[c].points]_vars

\* an activation request for the first client of "b1" was answered after a
\* points call changed its points, and the admin has created a client and
\* changed the business or deleted an item
C25_Witness ==
  /\ activation.clientId = InitialClientId("c1")
  /\ clients["c1"].exists
  /\ clients["c1"].points # InitialPoints("c1")
  /\ clients["n1"].exists
  /\ adminOps = 1

\* the client the points call p is about
TargetOf(p) == IF InFlight(p) THEN args[p].clientObjectId ELSE args'[p].clientObjectId

\* C26: no step of a points call changes a business, an item or a client other
\* than its target; the return of a successful call changes only the points of
\* its target and appends one ledger entry, every other step of a call leaves
\* clients and ledger as they are
C26_CallFrame ==
  [][\A p \in Procs : CallStep(p) =>
       /\ businesses' = businesses
       /\ items' = items
       /\ \A c \in ClientIds \ {TargetOf(p)} : clients'[c] = clients[c]
       /\ IF CallReturns(p)
            THEN /\ clients'[TargetOf(p)] =
                      [clients[TargetOf(p)] EXCEPT !.points = loc[p].afterPoints]
                 /\ OneAppended
            ELSE clients' = clients /\ ledger' = ledger]_vars

\* a call on the first client of "b1" has succeeded and changed its points,
\* another call has failed, and the client of "b2" is as it was
C26_Witness ==
  /\ \A p \in Procs : ~InFlight(p)
  /\ calls = 2
  /\ Len(ledger) = 1
  /\ clients["c1"].points = ledger[1].afterPoints
  /\ clients["c1"].points # InitialPoints("c1")
  /\ clients["c2"].points = InitialPoints("c2")

\* the request q is inside generateClientId
Generating(q) == creation[q].pc \in {"generate", "attempt"}

\* C27: generateClientId terminates; it makes at most maxRetries lookups; a
\* candidate it returns from the loop is the one whose lookup found no client,
\* and after maxRetries candidates that collided it returns the fallback
\* identifier with no lookup
C27_Terminates ==
  /\ [](\A q \in Creators :
          /\ creation[q].attempt <= MaxRetries
          /\ creation[q].pc = "attempt" => creation[q].attempt < MaxRetries)
  /\ [][\A q \in Creators : Returns(q) =>
          IF creation'[q].path = "random"
            THEN /\ creation'[q].attempt = creation[q].attempt
                 /\ FindOneOfBusiness(clients, creation'[q].clientId,
                                      creation[q].businessId) = {}
            ELSE /\ creation[q].attempt = MaxRetries - 1
                 /\ creation'[q].attempt = MaxRetries
                 /\ \E timestamp \in Timestamps, hex \in RandomHex :
                      creation'[q].clientId = FallbackId(creation[q].prefix, timestamp, hex)]_vars
  /\ \A q \in Creators : Generating(q) ~> ~Generating(q)

\* generateClientId has returned the fallback identifier after maxRetries
\* candidates that collided
C27_Witness ==
  \E q \in Creators :
    /\ creation[q].pc = "insert"
    /\ creation[q].path = "fallback"
    /\ creation[q].attempt = MaxRetries

\* the call p is failing on the overdraft check
Overdrawn(p) == pc[p] = "abort" /\ err[p] = "InsufficientPoints"

\* the amount by which the balance falls short of what the call p needs
Shortfall(p) == 0 - (loc[p].beforePoints + loc[p].pointsChange)

BelowZeroUnderNoOverdraft(p) ==
  /\ InFlight(p)
  /\ err[p] \in {"none", "InsufficientPoints", "WriteConflict", "StoreError"}
  /\ ~snap[p].business.allowNegativePoints
  /\ snap[p].client.points + PointsChangeFor(kind[p], args[p], snap[p]) < 0

\* C29: under a business that does not allow overdraft a call whose resulting
\* balance is below zero is rejected whatever the sign of its delta, and the
\* rejected call leaves every balance and the ledger unchanged
C29_RejectedWhateverSign ==
  /\ [](\A p \in Procs : BelowZeroUnderNoOverdraft(p) => Overdrawn(p))
  /\ [][\A p \in Procs : (Overdrawn(p) /\ CallStep(p)) =>
          clients' = clients /\ ledger' = ledger]_vars

\* an earn item applied to a balance of -2 left from the time overdraft was
\* allowed is being rejected
C29_Witness ==
  \E p \in Procs :
    /\ Overdrawn(p)
    /\ kind[p] = "item"
    /\ snap[p].item.type = "earn"
    /\ loc[p].pointsChange > 0
    /\ clients[args[p].clientObjectId].points < 0
    /\ Len(ledger) = 1

\* C30: a finished points call has ended its session once and has finished its
\* transaction by exactly one of commit and abort: commit and no abort when
\* it returned, abort and no commit when it threw, and then the error it threw
\* is the one that made it fail
C30_SessionDiscipline ==
  \A p \in Procs : session[p].result # "none" =>
    /\ session[p].ends = 1
    /\ session[p].commits + session[p].aborts = 1
    /\ session[p].result = "returned" => session[p].commits = 1
    /\ session[p].result = "thrown" =>
         session[p].aborts = 1 /\ session[p].error = session[p].cause

====
